---- MODULE Spec2Model ----
EXTENDS Integers, Sequences, FiniteSets, TLC

(***************************************************************************)
(* Exact arithmetic.  The program computes with floating point reals; the  *)
(* model computes with exact values so that equalities between results are *)
(* decided, not approximated.                                              *)
(*   Rat : a rational <<n, d>> in lowest terms, d > 0.                     *)
(*   Num : a polynomial with Rat coefficients in symbolic irrational       *)
(*         atoms, a function from monomials (sorted sequences of atoms) to *)
(*         non-zero coefficients.  Atom p > 1 (a prime) stands for ln p;   *)
(*         atom a < 0 stands for an angle whose cosine and sine are        *)
(*         rational (AngleCosSin).                                         *)
(*   Dual: [v |-> Num, d |-> Num], a value with its derivative along one   *)
(*         chosen direction of the score vector (forward differentiation). *)
(***************************************************************************)

Abs(x) == IF x < 0 THEN -x ELSE x

\* TLC evaluates an argument of an operator where the operator first uses
\* it, and a function expression again at every use of one of its values.
\* Known(x) holds of every x and has x evaluated on the spot; Evaluated(x)
\* is x, evaluated.
Known(x) == x = x
Evaluated(x) == CASE Known(x) -> x

RECURSIVE Gcd(_, _)
Gcd(a, b) == IF b = 0 THEN a ELSE Gcd(b, a % b)

Rat(n, d) ==
    CASE Known(<<n, d>>) ->
    LET g == Gcd(Abs(n), Abs(d))
        s == IF d < 0 THEN -1 ELSE 1
    IN  <<s * (n \div g), s * (d \div g)>>

R0 == <<0, 1>>
R1 == <<1, 1>>
RInt(n) == <<n, 1>>
RAdd(a, b) ==
    CASE Known(<<a, b>>) ->
    LET g == Gcd(a[2], b[2])
    IN  Rat(a[1] * (b[2] \div g) + b[1] * (a[2] \div g), a[2] * (b[2] \div g))
RNeg(a) == <<-a[1], a[2]>>
RSub(a, b) == RAdd(a, RNeg(b))
RMul(a, b) ==
    CASE Known(<<a, b>>) ->
    LET g == Gcd(Abs(a[1]), b[2])
        h == Gcd(Abs(b[1]), a[2])
    IN  Rat((a[1] \div g) * (b[1] \div h), (a[2] \div h) * (b[2] \div g))
RInv(a) == Rat(a[2], a[1])
RDiv(a, b) == RMul(a, RInv(b))
RLess(a, b) == a[1] * b[2] < b[1] * a[2]

\* ---- monomials: sorted sequences of atoms
RECURSIVE Merge(_, _)
Merge(m1, m2) ==
    IF m1 = <<>> THEN m2
    ELSE IF m2 = <<>> THEN m1
    ELSE IF Head(m1) <= Head(m2) THEN <<Head(m1)>> \o Merge(Tail(m1), m2)
    ELSE <<Head(m2)>> \o Merge(m1, Tail(m2))

Unit == <<>>
NZero == [m \in {} |-> R0]
NRat(r) == IF r = R0 THEN NZero ELSE [m \in {Unit} |-> r]
NInt(n) == NRat(RInt(n))
NAtom(a) == [m \in {<<a>>} |-> R1]
Coef(x, m) == IF m \in DOMAIN x THEN x[m] ELSE R0

NAdd(x, y) ==
    LET D == DOMAIN x \cup DOMAIN y
        s == [m \in D |-> RAdd(Coef(x, m), Coef(y, m))]
    IN  [m \in {mm \in D : s[mm] # R0} |-> s[m]]

NScale(r, x) ==
    IF r = R0 THEN NZero ELSE [m \in DOMAIN x |-> RMul(r, x[m])]

NNeg(x) == [m \in DOMAIN x |-> RNeg(x[m])]
NSub(x, y) == NAdd(x, NNeg(y))

RECURSIVE NSumSet(_)
NSumSet(S) ==
    IF S = {} THEN NZero
    ELSE LET t == CHOOSE t \in S : TRUE IN NAdd(t, NSumSet(S \ {t}))

\* x * y: every term of x times every term of y
RECURSIVE MulAcc(_, _, _)
MulAcc(x, y, P) ==
    IF P = {} THEN R0
    ELSE LET p == CHOOSE q \in P : TRUE
         IN  RAdd(RMul(x[p[1]], y[p[2]]), MulAcc(x, y, P \ {p}))

NMul(x, y) ==
    IF DOMAIN x = {} \/ DOMAIN y = {} THEN NZero
    ELSE IF DOMAIN y = {Unit} THEN NScale(y[Unit], x)
    ELSE IF DOMAIN x = {Unit} THEN NScale(x[Unit], y)
    ELSE LET D == {Merge(m1, m2) : m1 \in DOMAIN x, m2 \in DOMAIN y}
             c == [m \in D |->
                     MulAcc(x, y, {p \in (DOMAIN x) \X (DOMAIN y) :
                                      Merge(p[1], p[2]) = m})]
         IN  [m \in {mm \in D : c[mm] # R0} |-> c[m]]

AsRat(x) == Coef(x, Unit)


\* ---- exp, log, cos, sin on the values where they are exact
RECURSIVE IPow(_, _)
IPow(b, e) == IF e = 0 THEN 1 ELSE b * IPow(b, e - 1)

RPow(r, e) == IF e >= 0 THEN Rat(IPow(r[1], e), IPow(r[2], e))
              ELSE Rat(IPow(r[2], -e), IPow(r[1], -e))

RECURSIVE LnInt(_, _)
LnInt(n, p) ==
    IF n = 1 THEN NZero
    ELSE IF n % p = 0 THEN NAdd(NAtom(p), LnInt(n \div p, p))
    ELSE LnInt(n, p + 1)

\* ln r of a positive rational r: a combination of the ln p, p prime
NLn(r) == NSub(LnInt(r[1], 2), LnInt(r[2], 2))

\* exp x of x = sum of c_p * ln p with integer c_p: the rational prod p^c_p
RECURSIVE ExpAcc(_, _)
ExpAcc(x, M) ==
    IF M = {} THEN R1
    ELSE LET m == CHOOSE q \in M : TRUE
         IN  RMul(RPow(RInt(m[1]), x[m][1]), ExpAcc(x, M \ {m}))

NExp(x) == ExpAcc(x, DOMAIN x)

\* The angle atoms: -1 is pi/2, -2 is the angle with cosine 3/5, sine 4/5.
AngleCosSin(a) ==
    CASE a = -1 -> <<R0, R1>>
      [] a = -2 -> <<Rat(3, 5), Rat(4, 5)>>

Rotate(p, q) == <<RSub(RMul(p[1], q[1]), RMul(p[2], q[2])),
                  RAdd(RMul(p[2], q[1]), RMul(p[1], q[2]))>>

RECURSIVE RotPow(_, _)
RotPow(p, e) ==
    IF e = 0 THEN <<R1, R0>>
    ELSE IF e < 0 THEN RotPow(<<p[1], RNeg(p[2])>>, -e)
    ELSE LET q == RotPow(p, e - 1) IN CASE Known(q) -> Rotate(p, q)

RECURSIVE CosSinAcc(_, _)
CosSinAcc(x, M) ==
    IF M = {} THEN <<R1, R0>>
    ELSE LET m == CHOOSE q \in M : TRUE
             p == RotPow(AngleCosSin(m[1]), x[m][1])
             q == CosSinAcc(x, M \ {m})
         IN  CASE Known(<<p, q>>) -> Rotate(p, q)

\* <<cos x, sin x>> of x = sum of c_a * a with integer c_a, a an angle atom
NCosSin(x) == CosSinAcc(x, DOMAIN x)

\* the rational square root of a rational square
RSqrt(r) ==
    LET n == CHOOSE k \in 0..r[1] : k * k = r[1]
        d == CHOOSE k \in 1..r[2] : k * k = r[2]
    IN  Rat(n, d)

\* ---- dual numbers: the value and its derivative along one direction
Dual(v, d) == [v |-> v, d |-> d]
DConst(r) == Dual(NRat(r), NZero)
DInt(n) == DConst(RInt(n))
Np_add(a, b) == Dual(NAdd(a.v, b.v), NAdd(a.d, b.d))
Np_subtract(a, b) == Dual(NSub(a.v, b.v), NSub(a.d, b.d))
Np_negative(a) == Dual(NNeg(a.v), NNeg(a.d))
Np_multiply(a, b) == Dual(NMul(a.v, b.v), NAdd(NMul(a.d, b.v), NMul(a.v, b.d)))
\* a / b, b a rational value
Np_divide(a, b) ==
    LET ib == RInv(AsRat(b.v))
    IN  Dual(NScale(ib, a.v),
             NScale(ib, NSub(a.d, NScale(ib, NMul(a.v, b.d)))))
Np_exp(a) == LET e == NRat(NExp(a.v)) IN Dual(e, NMul(e, a.d))
Np_log(a) == Dual(NLn(AsRat(a.v)), NScale(RInv(AsRat(a.v)), a.d))
Np_log1p(a) == Np_log(Np_add(DInt(1), a))
Np_cos(a) == LET cs == NCosSin(a.v)
           IN  Dual(NRat(cs[1]), NScale(RNeg(cs[2]), a.d))
Np_sin(a) == LET cs == NCosSin(a.v)
           IN  Dual(NRat(cs[2]), NScale(cs[1], a.d))
\* a < b for values that are logarithms of rationals or rationals
Np_less(a, b) ==
    IF DOMAIN a.v \subseteq {Unit} /\ DOMAIN b.v \subseteq {Unit}
    THEN RLess(AsRat(a.v), AsRat(b.v))
    ELSE RLess(NExp(a.v), NExp(b.v))

(***************************************************************************)
(* Apply(fn, args) is the application of a callable of the program to its  *)
(* arguments: a numpy scalar operation, or a method of the objective.  It  *)
(* is one recursive operator, so that the operations a method is made of   *)
(* are applications inside the application of the method.                  *)
(***************************************************************************)
RECURSIVE Apply(_, _)
DAdd(a, b) == Apply("add", <<a, b>>)
DSub(a, b) == Apply("subtract", <<a, b>>)
DNeg(a) == Apply("negative", <<a>>)
DMul(a, b) == Apply("multiply", <<a, b>>)
DDiv(a, b) == Apply("divide", <<a, b>>)
DExp(a) == Apply("exp", <<a>>)
DLog(a) == Apply("log", <<a>>)
DLog1p(a) == Apply("log1p", <<a>>)
DCos(a) == Apply("cos", <<a>>)
DSin(a) == Apply("sin", <<a>>)
DLess(a, b) == Apply("less", <<a, b>>)


(***************************************************************************)
(* numpy arrays.  An array is [ok, dat, base]: ok is FALSE for a raised    *)
(* exception (which every later operation propagates); dat is a sequence   *)
(* of Dual (1-D) or a sequence of rows (2-D); base names the caller's      *)
(* array whose memory the array shares ("f", "label", "anchor"), or "new"  *)
(* for an array allocated inside the call.  mem holds the caller's arrays; *)
(* an in-place update of an array writes through to mem when the array is  *)
(* a view of one of them.                                                  *)
(***************************************************************************)
New(dat) == [ok |-> TRUE, dat |-> Evaluated(dat), base |-> "new"]
Raise == [ok |-> FALSE, dat |-> <<>>, base |-> "new"]
View(dat, base) == [ok |-> TRUE, dat |-> Evaluated(dat), base |-> base]
Ret(out, mem) == [out |-> out, mem |-> mem]

\* elementwise unary operation: a new array
Map1(Op(_), a) ==
    IF ~a.ok THEN Raise ELSE New([i \in 1..Len(a.dat) |-> Op(a.dat[i])])

\* elementwise binary operation on 1-D arrays with numpy's broadcasting
Zip1(Op(_, _), a, b) ==
    IF ~a.ok \/ ~b.ok THEN Raise
    ELSE LET la == Len(a.dat)
             lb == Len(b.dat)
         IN  IF la = lb THEN New([i \in 1..la |-> Op(a.dat[i], b.dat[i])])
             ELSE IF la = 1 THEN New([i \in 1..lb |-> Op(a.dat[1], b.dat[i])])
             ELSE IF lb = 1 THEN New([i \in 1..la |-> Op(a.dat[i], b.dat[1])])
             ELSE Raise

Map2(Op(_), a) ==
    IF ~a.ok THEN Raise
    ELSE New([i \in 1..Len(a.dat) |->
                 [c \in 1..Len(a.dat[i]) |-> Op(a.dat[i][c])]])

\* elementwise binary operation on 2-D arrays of equal width
Zip2(Op(_, _), a, b) ==
    IF ~a.ok \/ ~b.ok THEN Raise
    ELSE LET la == Len(a.dat)
             lb == Len(b.dat)
             row(x, y) == [c \in 1..Len(x) |-> Op(x[c], y[c])]
         IN  IF la = lb THEN New([i \in 1..la |-> row(a.dat[i], b.dat[i])])
             ELSE IF la = 1 THEN New([i \in 1..lb |-> row(a.dat[1], b.dat[i])])
             ELSE IF lb = 1 THEN New([i \in 1..la |-> row(a.dat[i], b.dat[1])])
             ELSE Raise

\* 2-D array op column vector v[:, np.newaxis] (one entry of v per row)
ZipCol(Op(_, _), a, v) ==
    IF ~a.ok \/ ~v.ok THEN Raise
    ELSE New([i \in 1..Len(a.dat) |->
                 [c \in 1..Len(a.dat[i]) |-> Op(a.dat[i][c], v.dat[i])]])

\* 2-D array op row vector (keepdims result of an axis=0 reduction)
ZipRow(Op(_, _), a, r) ==
    IF ~a.ok \/ ~r.ok THEN Raise
    ELSE New([i \in 1..Len(a.dat) |->
                 [c \in 1..Len(a.dat[i]) |-> Op(a.dat[i][c], r.dat[c])]])

RECURSIVE DSumSeq(_)
DSumSeq(s) == IF s = <<>> THEN DInt(0) ELSE DAdd(Head(s), DSumSeq(Tail(s)))

RECURSIVE DMaxSeq(_)
DMaxSeq(s) ==
    IF Len(s) = 1 THEN s[1]
    ELSE LET m == DMaxSeq(Tail(s))
         IN  IF DLess(Head(s), m) THEN m ELSE Head(s)

\* a.mean() of a 1-D array: a scalar
Mean1(a) == DDiv(DSumSeq(a.dat), DInt(Len(a.dat)))
\* np.sum(a, axis=1), np.max(a, axis=1): one entry per row
SumAxis1(a) ==
    IF ~a.ok THEN Raise ELSE New([i \in 1..Len(a.dat) |-> DSumSeq(a.dat[i])])
MaxAxis1(a) ==
    IF ~a.ok THEN Raise ELSE New([i \in 1..Len(a.dat) |-> DMaxSeq(a.dat[i])])
\* a.mean(axis=0, keepdims=True): one entry per column
MeanAxis0(a) ==
    IF ~a.ok THEN Raise
    ELSE New([c \in 1..Len(a.dat[1]) |->
                 DDiv(DSumSeq([i \in 1..Len(a.dat) |-> a.dat[i][c]]),
                      DInt(Len(a.dat)))])

\* f.reshape((-1, k), order="F"): a view; entry (i, c) is f[c * n + i]
ReshapeF(a, k) ==
    IF ~a.ok THEN Raise
    ELSE IF Len(a.dat) % k # 0 THEN Raise
    ELSE LET n == Len(a.dat) \div k
         IN  View([i \in 1..n |-> [c \in 1..k |-> a.dat[(c - 1) * n + i]]],
                  a.base)

\* the data of a.flatten("F"): column after column
FlatC(dat) ==
    LET k == Len(dat[1])
    IN  [j \in 1..(Len(dat) * k) |-> dat[((j - 1) \div k) + 1][((j - 1) % k) + 1]]
FlatF(dat) ==
    LET n == Len(dat)
        k == Len(dat[1])
    IN  [j \in 1..(n * k) |-> dat[((j - 1) % n) + 1][((j - 1) \div n) + 1]]

\* a.flatten("F"): a copy
FlattenF(a) == IF ~a.ok THEN Raise ELSE New(FlatF(a.dat))

\* a op= b in place on a 1-D (2-D) array a, r the value of a op b: the
\* updated array, and the caller's arrays, where the update shows in the
\* array a is a view of
InPlace1(r, a, mem) ==
    IF ~r.ok \/ ~a.ok THEN Ret(Raise, mem)
    ELSE Ret(View(r.dat, a.base),
             IF a.base = "new" THEN mem ELSE [mem EXCEPT ![a.base] = r.dat])
InPlace2(r, a, mem) ==
    IF ~r.ok \/ ~a.ok THEN Ret(Raise, mem)
    ELSE Ret(View(r.dat, a.base),
             IF a.base = "new" THEN mem
             ELSE [mem EXCEPT ![a.base] = FlatF(r.dat)])


(***************************************************************************)
(* Base families.  o is the objective object (self), f the score array,    *)
(* data the dataset: data.label is what get_label() returns and            *)
(* data.anchor the anchor matrix.  Operations with in-place steps return   *)
(* Ret(out, mem): the result and the caller's arrays after the call.       *)
(***************************************************************************)
D1 == DInt(1)
D2 == DInt(2)

\* ---- ClassificationMixin
Sigmoid(x) == DDiv(D1, DAdd(D1, DExp(DNeg(x))))

Classification_predictions(f) == Map1(Sigmoid, f)

Classification_loss(f, data) ==
    LET s == Map1(LAMBDA y : DAdd(DMul(DInt(-2), y), D1), data.label)
        sf == Zip1(DMul, s, f)
    IN  CASE Known(<<s, sf>>) -> Map1(LAMBDA x : DLog(DAdd(D1, DExp(x))), sf)

Classification_grad(f, data) ==
    Zip1(DSub, Apply("ClassificationMixin.predictions", <<f>>), data.label)

Classification_hess(f, data) ==
    LET predictions == Apply("ClassificationMixin.predictions", <<f>>)
    IN  CASE Known(predictions) ->
            Zip1(DMul, predictions, Map1(LAMBDA p : DSub(D1, p), predictions))

\* ---- MultiClassificationMixin
FactorOne(n_classes) == R1
Factor(n_classes) == Rat(n_classes - 1, n_classes)

\* f = f - np.max(f, axis=1)[:, np.newaxis]: a new array bound to the local
\* name f; the caller's arrays are as they were
ShiftByRowMaxInPlace(f2, mem) == InPlace2(ZipCol(DSub, f2, MaxAxis1(f2)), f2, mem)
ShiftByRowMax(f2, mem) == Ret(ZipCol(DSub, f2, MaxAxis1(f2)), mem)

MultiClassification_predictions(o, f, mem) ==
    LET f2 == ReshapeF(f, o.n_classes)
        shifted == ShiftByRowMax(f2, mem)
        predictions == Map2(DExp, shifted.out)
        divided == ZipCol(DDiv, predictions, SumAxis1(predictions))
    IN  CASE Known(<<f2, shifted, predictions, divided>>) ->
            InPlace2(divided, predictions, shifted.mem)

\* a[(np.arange(len(y)), y.astype(int))]: IndexError past the rows or columns
IndexOk(a, y) ==
    /\ a.ok /\ y.ok
    /\ Len(y.dat) <= Len(a.dat)
    /\ \A i \in 1..Len(y.dat) :
          LET c == AsRat(y.dat[i].v)[1] IN c < Len(a.dat[i]) /\ c >= -Len(a.dat[i])

Col(a, i, y) ==
    LET c == AsRat(y.dat[i].v)[1]
    IN  IF c >= 0 THEN c + 1 ELSE Len(a.dat[i]) + c + 1

TakeIndices(a, y) ==
    IF ~IndexOk(a, y) THEN Raise
    ELSE New([i \in 1..Len(y.dat) |-> a.dat[i][Col(a, i, y)]])

\* a[(np.arange(len(y)), y.astype(int))] -= 1, in place
SubOneAtIndices(a, y, mem) ==
    IF ~IndexOk(a, y) THEN Ret(Raise, mem)
    ELSE InPlace2(New([i \in 1..Len(a.dat) |->
                          [c \in 1..Len(a.dat[i]) |->
                              IF i <= Len(y.dat) /\ c = Col(a, i, y)
                              THEN DSub(a.dat[i][c], D1) ELSE a.dat[i][c]]]),
                  a, mem)

MultiClassification_loss(o, f, data, mem) ==
    LET s == ShiftByRowMax(ReshapeF(f, o.n_classes), mem)
        shifted == s.out
        log_divisor == Map1(DLog, SumAxis1(Map2(DExp, shifted)))
        taken == TakeIndices(shifted, data.label)
    IN  CASE Known(<<s, log_divisor, taken>>) ->
            Ret(Zip1(DAdd, Map1(DNeg, taken), log_divisor), s.mem)

MultiClassification_grad(o, f, data, mem) ==
    LET p == Apply("MultiClassificationMixin.predictions", <<o, f, mem>>)
        q == SubOneAtIndices(p.out, data.label, p.mem)
    IN  CASE Known(<<p, q>>) -> Ret(FlattenF(q.out), q.mem)

MultiClassification_hess(o, f, data, mem) ==
    LET p == Apply("MultiClassificationMixin.predictions", <<o, f, mem>>)
        predictions == FlattenF(p.out)
    IN  CASE Known(<<p, predictions>>) ->
        Ret(Zip1(DMul,
                 Map1(LAMBDA x : DMul(DConst(RInv(o.factor)), x), predictions),
                 Map1(LAMBDA x : DSub(D1, x), predictions)),
            p.mem)

\* ---- RegressionMixin
Regression_loss(f, data) ==
    Map1(LAMBDA r : DMul(r, r), Zip1(DSub, data.label, f))

Regression_grad(f, data) ==
    Map1(LAMBDA r : DMul(DInt(-2), r), Zip1(DSub, data.label, f))

Regression_hess(f, data) == Map1(LAMBDA x : D2, f)

\* ---- AnchorMixin._proj: least-squares fit of residuals on the anchor
Dot(u, v) ==
    LET RECURSIVE S(_)
        S(i) == IF i = 0 THEN R0 ELSE RAdd(RMul(u[i], v[i]), S(i - 1))
    IN  S(Len(u))

RVecSub(u, v) == Evaluated([i \in 1..Len(u) |-> RSub(u[i], v[i])])
RVecScale(r, u) == Evaluated([i \in 1..Len(u) |-> RMul(r, u[i])])

\* v minus its components along the orthogonal vectors Q
RECURSIVE Reduce(_, _)
Reduce(v, Q) ==
    IF Q = <<>> THEN v
    ELSE LET q == Head(Q)
             r == RDiv(Dot(q, v), Dot(q, q))
             w == RVecSub(v, RVecScale(r, q))
         IN  CASE Known(r) /\ Known(w) -> Reduce(w, Tail(Q))

\* an orthogonal basis of the span of the columns (Gram-Schmidt; a column
\* that depends on the earlier ones adds nothing: the minimum-norm solution)
RECURSIVE OrthoBasis(_, _)
OrthoBasis(cols, Q) ==
    IF cols = <<>> THEN Q
    ELSE LET v == Reduce(Head(cols), Q)
             B == IF \A i \in 1..Len(v) : v[i] = R0 THEN Q ELSE Append(Q, v)
         IN  CASE Known(B) -> OrthoBasis(Tail(cols), B)

Columns(rows) ==
    Evaluated([j \in 1..Len(rows[1]) |-> [i \in 1..Len(rows) |-> rows[i][j]]])

RECURSIVE ProjEntry(_, _, _)
ProjEntry(Q, i, l) ==
    IF Q = <<>> THEN R0
    ELSE RAdd(RDiv(RMul(Head(Q)[i], Head(Q)[l]), Dot(Head(Q), Head(Q))),
              ProjEntry(Tail(Q), i, l))

\* the matrix of the orthogonal projection onto the span of the columns
ProjMatrix(rows) ==
    LET Q == OrthoBasis(Columns(rows), <<>>)
        n == Len(rows)
    IN  CASE Known(Q) ->
            Evaluated([i \in 1..n |-> [l \in 1..n |-> ProjEntry(Q, i, l)]])


\* P times a vector of Dual
ProjVec(P, v) ==
    [i \in 1..Len(P) |->
        DSumSeq([l \in 1..Len(P) |-> Dual(NScale(P[i][l], v[l].v),
                                          NScale(P[i][l], v[l].d))])]

\* _proj(anchor, residuals), residuals 1-D: a new array; lstsq raises when
\* the rows of anchor and residuals differ
Proj1(anchor, residuals) ==
    IF ~anchor.ok \/ ~residuals.ok THEN Raise
    ELSE IF Len(residuals.dat) # Len(anchor.dat) THEN Raise
    ELSE New(ProjVec(anchor.proj, residuals.dat))

\* _proj(anchor, residuals), residuals 2-D: column by column
Proj2(anchor, residuals) ==
    IF ~anchor.ok \/ ~residuals.ok THEN Raise
    ELSE IF Len(residuals.dat) # Len(anchor.dat) THEN Raise
    ELSE LET P == anchor.proj
             n == Len(residuals.dat)
             k == Len(residuals.dat[1])
             col(c) == ProjVec(P, [i \in 1..n |-> residuals.dat[i][c]])
             cols == [c \in 1..k |-> col(c)]
         IN  CASE Known(cols) -> New([i \in 1..n |-> [c \in 1..k |-> cols[c][i]]])

(***************************************************************************)
(* Anchor objective variants.                                              *)
(***************************************************************************)
Sq(x) == DMul(x, x)
\* the penalty factor (self.gamma - 1)
GammaNotMinus1(o) == DInt(o.gamma)
GammaMinus1(o) == DInt(o.gamma - 1)
MaxGamma1(o) == DInt(IF o.gamma > 1 THEN o.gamma ELSE 1)

\* a -= a.mean() on a 1-D array, in place
CenterInPlace1(a, mem) ==
    IF ~a.ok THEN Ret(Raise, mem)
    ELSE InPlace1(Map1(LAMBDA x : DSub(x, Mean1(a)), a), a, mem)

\* a -= a.mean(axis=0, keepdims=True) on a 2-D array, in place
CenterInPlace2(a, mem) == InPlace2(ZipRow(DSub, a, MeanAxis0(a)), a, mem)

\* ---- AnchorKookClassificationObjective
\* if self.center_residuals: proj_residuals -= proj_residuals.mean()
CenterProjected1Skipped(o, proj, mem) == Ret(proj, mem)
CenterProjected1(o, proj, mem) ==
    IF o.center_residuals THEN CenterInPlace1(proj, mem) ELSE Ret(proj, mem)

AnchorKookClassification_residuals(o, f, data, mem) ==
    LET predictions == Apply("ClassificationMixin.predictions", <<f>>)
        residuals == Zip1(DSub, predictions, data.label)
    IN  CASE Known(<<predictions, residuals>>) ->
        IF o.center_residuals THEN CenterInPlace1(residuals, mem)
        ELSE Ret(residuals, mem)

AnchorKookClassification_loss(o, f, data, mem) ==
    LET r == Apply("AnchorKookClassificationObjective.residuals",
                   <<o, f, data, mem>>)
        proj_residuals == Apply("AnchorMixin._proj", <<data.anchor, r.out, 1>>)
        penalty == Map1(LAMBDA x : DMul(GammaMinus1(o), Sq(x)), proj_residuals)
        base == Apply("ClassificationMixin.loss", <<f, data>>)
    IN  CASE Known(<<r, proj_residuals, penalty, base>>) ->
            Ret(Zip1(DAdd, base, penalty), r.mem)

AnchorKookClassification_grad(o, f, data, mem) ==
    LET predictions == Apply("ClassificationMixin.predictions", <<f>>)
        r == Apply("AnchorKookClassificationObjective.residuals",
                   <<o, f, data, mem>>)
        proj == Apply("AnchorMixin._proj", <<data.anchor, r.out, 1>>)
        pr == CenterProjected1(o, proj, r.mem)
        weight == Zip1(DMul, predictions,
                       Map1(LAMBDA p : DSub(D1, p), predictions))
        anchor_grad == Zip1(DMul,
                            Map1(LAMBDA x : DMul(DMul(D2, GammaMinus1(o)), x),
                                 pr.out),
                            weight)
        base == Apply("ClassificationMixin.grad", <<f, data>>)
    IN  CASE Known(<<predictions, r, proj, pr, weight, anchor_grad, base>>) ->
            Ret(Zip1(DAdd, base, anchor_grad), pr.mem)

\* ---- AnchorKookMultiClassificationObjective
AnchorKookMultiClassification_residuals(o, f, data, mem) ==
    LET p == Apply("MultiClassificationMixin.predictions", <<o, f, mem>>)
        q == SubOneAtIndices(p.out, data.label, p.mem)
        c == IF o.center_residuals THEN CenterInPlace2(q.out, q.mem) ELSE q
    IN  CASE Known(<<p, q, c>>) -> Ret(FlattenF(c.out), c.mem)

AnchorKookMultiClassification_loss(o, f, data, mem) ==
    LET r == Apply("AnchorKookMultiClassificationObjective.residuals",
                   <<o, f, data, mem>>)
        residuals == ReshapeF(r.out, o.n_classes)
        proj_residuals == Apply("AnchorMixin._proj",
                                <<data.anchor, residuals, 2>>)
        penalty == Map1(LAMBDA x : DMul(DMul(DConst(o.factor), GammaMinus1(o)), x),
                        SumAxis1(Map2(Sq, proj_residuals)))
        base == Apply("MultiClassificationMixin.loss", <<o, f, data, r.mem>>)
    IN  CASE Known(<<r, residuals, proj_residuals, penalty, base>>) ->
            Ret(Zip1(DAdd, base.out, penalty), base.mem)

AnchorKookMultiClassification_grad(o, f, data, mem) ==
    LET r == Apply("AnchorKookMultiClassificationObjective.residuals",
                   <<o, f, data, mem>>)
        residuals == ReshapeF(r.out, o.n_classes)
        proj == Apply("AnchorMixin._proj", <<data.anchor, residuals, 2>>)
        pc == IF o.center_residuals THEN CenterInPlace2(proj, r.mem)
              ELSE Ret(proj, r.mem)
        p == Apply("MultiClassificationMixin.predictions", <<o, f, pc.mem>>)
        pw == InPlace2(ZipCol(DSub, pc.out,
                              SumAxis1(Zip2(DMul, pc.out, p.out))),
                       pc.out, p.mem)
        scale == DMul(DMul(D2, DConst(o.factor)), GammaMinus1(o))
        anchor_grad == Zip2(DMul, Map2(LAMBDA x : DMul(scale, x), p.out), pw.out)
        base == Apply("MultiClassificationMixin.grad", <<o, f, data, pw.mem>>)
    IN  CASE Known(<<r, residuals, proj, pc, p, pw, scale, anchor_grad, base>>) ->
            Ret(Zip1(DAdd, base.out, FlattenF(anchor_grad)), base.mem)

\* ---- AnchorLiuClassificationObjective
LiuSign(data) == Map1(LAMBDA l : DSub(DMul(D2, l), D1), data.label)

AnchorLiuClassification_residuals(o, f, data) ==
    LET y == LiuSign(data)
        yf == Zip1(DMul, y, f)
        a == Zip1(DMul, y, Map1(LAMBDA x : DAdd(D1, DExp(DNeg(x))), yf))
        b == Map1(LAMBDA x : DLog1p(DExp(x)), yf)
    IN  CASE Known(<<y, yf, a, b>>) -> Zip1(DAdd, Map1(DNeg, f), Zip1(DMul, a, b))

AnchorLiuClassification_loss(o, f, data) ==
    IF o.gamma = 1 THEN Apply("ClassificationMixin.loss", <<f, data>>)
    ELSE LET residuals == Apply("AnchorLiuClassificationObjective.residuals",
                                <<o, f, data>>)
             proj_residuals == Apply("AnchorMixin._proj",
                                     <<data.anchor, residuals, 1>>)
             base == Apply("ClassificationMixin.loss", <<f, data>>)
         IN  CASE Known(<<residuals, proj_residuals, base>>) ->
                 Zip1(DAdd, base,
                      Map1(LAMBDA x : DMul(GammaMinus1(o), Sq(x)), proj_residuals))

AnchorLiuClassification_grad(o, f, data) ==
    IF o.gamma = 1 THEN Apply("ClassificationMixin.grad", <<f, data>>)
    ELSE LET y == LiuSign(data)
             yf == Zip1(DMul, y, f)
             residuals == Apply("AnchorLiuClassificationObjective.residuals",
                                <<o, f, data>>)
             proj_residuals == Apply("AnchorMixin._proj",
                                     <<data.anchor, residuals, 1>>)
             t == Zip1(DMul,
                       Zip1(DMul,
                            Map1(LAMBDA x : DMul(DMul(D2, GammaMinus1(o)), x),
                                 proj_residuals),
                            Map1(LAMBDA x : DExp(DNeg(x)), yf)),
                       Map1(LAMBDA x : DLog1p(DExp(x)), yf))
             base == Apply("ClassificationMixin.grad", <<f, data>>)
         IN  CASE Known(<<y, yf, residuals, proj_residuals, t, base>>) ->
                 Zip1(DSub, base, t)

\* ---- AnchorRegressionObjective
AnchorRegression_residuals(f, data) == Zip1(DSub, data.label, f)

AnchorRegression_loss(o, f, data) ==
    IF o.gamma = 1 THEN Apply("RegressionMixin.loss", <<f, data>>)
    ELSE LET residuals == Apply("AnchorRegressionObjective.residuals",
                                <<f, data>>)
             proj_residuals == Apply("AnchorMixin._proj",
                                     <<data.anchor, residuals, 1>>)
             base == Apply("RegressionMixin.loss", <<f, data>>)
         IN  CASE Known(<<residuals, proj_residuals, base>>) ->
                 Map1(LAMBDA x : DDiv(x, MaxGamma1(o)),
                      Zip1(DAdd, base,
                           Map1(LAMBDA x : DMul(GammaMinus1(o), Sq(x)),
                                proj_residuals)))

AnchorRegression_grad(o, f, data) ==
    IF o.gamma = 1 THEN Apply("RegressionMixin.grad", <<f, data>>)
    ELSE LET residuals == Apply("AnchorRegressionObjective.residuals",
                                <<f, data>>)
             proj_residuals == Apply("AnchorMixin._proj",
                                     <<data.anchor, residuals, 1>>)
             base == Apply("RegressionMixin.grad", <<f, data>>)
         IN  CASE Known(<<residuals, proj_residuals, base>>) ->
                 Map1(LAMBDA x : DDiv(x, MaxGamma1(o)),
                      Zip1(DSub, base,
                           Map1(LAMBDA x : DMul(DMul(D2, GammaMinus1(o)), x),
                                proj_residuals)))

\* ---- AnchorHSICRegressionObjective
\* the k-th normal draw of a seed's stream: a multiple of the angle atom -2
NormalDraw(seed, k) == NScale(RInt(1 + ((seed + k) % 3)), NAtom(-2))
\* the k-th uniform draw of a seed's stream, in [0, 1)
UniformDraw(seed, k) == Rat((seed + k) % 4, 4)
\* rng.normal(size=(1, n)), rng.uniform(size=(1, n)): the draws and the
\* generator after them
RngNormal(rng, n) ==
    [out |-> [c \in 1..n |-> Dual(NormalDraw(rng.seed, rng.pos + c - 1), NZero)],
     rng |-> [rng EXCEPT !.pos = @ + n]]
RngUniform(rng, n) ==
    [out |-> [c \in 1..n |-> DConst(UniformDraw(rng.seed, rng.pos + c - 1))],
     rng |-> [rng EXCEPT !.pos = @ + n]]

\* the generator _fourier_residuals draws from, and self after creating it
FourierGeneratorKept(o) ==
    LET pos == IF "rng_pos" \in DOMAIN o THEN o.rng_pos ELSE 0
    IN  [rng |-> [seed |-> o.random_fourier_features_seed, pos |-> pos],
         self |-> [x \in DOMAIN o \cup {"rng_pos"} |->
                      IF x = "rng_pos" THEN (pos + 2 * o.n_components) % 12
                      ELSE o[x]]]
FourierGenerator(o) ==
    [rng |-> [seed |-> o.random_fourier_features_seed, pos |-> 0], self |-> o]

AnchorHSICRegression_fourier_residuals(o, f, data) ==
    LET g == FourierGenerator(o)
        residuals == Apply("AnchorRegressionObjective.residuals", <<f, data>>)
        w == RngNormal(g.rng, o.n_components)
        u == RngUniform(w.rng, o.n_components)
        random_weights == New(w.out)
        \* u * 2 * np.pi, in units of the angle atom pi/2
        offset == Map1(LAMBDA x : Dual(NScale(RMul(RInt(4), AsRat(x.v)),
                                              NAtom(-1)), NZero),
                       New(u.out))
        scale == DConst(RSqrt(Rat(2, o.n_components)))
        weight_matrix ==
            IF ~residuals.ok THEN Raise
            ELSE New([i \in 1..Len(residuals.dat) |->
                         [c \in 1..o.n_components |->
                             DAdd(DMul(residuals.dat[i], random_weights.dat[c]),
                                  offset.dat[c])]])
        fourier_residuals == Map2(LAMBDA x : DMul(DCos(x), scale), weight_matrix)
        fourier_derivative ==
            Map2(LAMBDA x : DMul(x, scale),
                 ZipRow(DMul, Map2(LAMBDA x : DNeg(DSin(x)), weight_matrix),
                        random_weights))
    IN  CASE Known(<<g, residuals, w, u, random_weights, offset, scale,
                     weight_matrix, fourier_residuals, fourier_derivative>>) ->
            [residuals |-> fourier_residuals, derivative |-> fourier_derivative,
             self |-> g.self]

AnchorHSICRegression_loss(o, f, data) ==
    IF o.gamma = 1 THEN [out |-> Apply("RegressionMixin.loss",
                                       <<f, data>>), self |-> o]
    ELSE LET fr == Apply("AnchorHSICRegressionObjective._fourier_residuals",
                         <<o, f, data>>)
             proj_residuals == Apply("AnchorMixin._proj",
                                     <<data.anchor, fr.residuals, 2>>)
             penalty == SumAxis1(Map2(Sq, proj_residuals))
             base == Apply("RegressionMixin.loss", <<f, data>>)
         IN  CASE Known(<<fr, proj_residuals, penalty, base>>) ->
             [out |-> Map1(LAMBDA x : DDiv(x, MaxGamma1(o)),
                           Zip1(DAdd, base,
                                Map1(LAMBDA x : DMul(GammaMinus1(o), x), penalty))),
              self |-> fr.self]

AnchorHSICRegression_grad(o, f, data) ==
    IF o.gamma = 1 THEN [out |-> Apply("RegressionMixin.grad",
                                       <<f, data>>), self |-> o]
    ELSE LET fr == Apply("AnchorHSICRegressionObjective._fourier_residuals",
                         <<o, f, data>>)
             proj_residuals == Apply("AnchorMixin._proj",
                                     <<data.anchor, fr.residuals, 2>>)
             derivative == Zip2(DMul, proj_residuals, fr.derivative)
             base == Apply("RegressionMixin.grad", <<f, data>>)
         IN  CASE Known(<<fr, proj_residuals, derivative, base>>) ->
             [out |-> Map1(LAMBDA x : DDiv(x, MaxGamma1(o)),
                           Zip1(DSub, base,
                                Map1(LAMBDA x : DMul(DMul(D2, GammaMinus1(o)), x),
                                     SumAxis1(derivative)))),
              self |-> fr.self]

(***************************************************************************)
(* Method resolution: the loss, grad and hess a variant object answers     *)
(* with.  Each returns [out, mem, self]: the result, the caller's arrays   *)
(* and the object after the call.                                          *)
(***************************************************************************)
Ret3(out, mem, self) == [out |-> out, mem |-> mem, self |-> self]
WithSelf(r, self) == Ret3(r.out, r.mem, self)

Loss(o, f, data, mem) ==
    CASE o.class = "AnchorKookClassificationObjective" ->
            WithSelf(AnchorKookClassification_loss(o, f, data, mem), o)
      [] o.class = "AnchorKookMultiClassificationObjective" ->
            WithSelf(AnchorKookMultiClassification_loss(o, f, data, mem), o)
      [] o.class = "AnchorLiuClassificationObjective" ->
            Ret3(AnchorLiuClassification_loss(o, f, data), mem, o)
      [] o.class = "AnchorRegressionObjective" ->
            Ret3(AnchorRegression_loss(o, f, data), mem, o)
      [] o.class = "AnchorHSICRegressionObjective" ->
            LET r == AnchorHSICRegression_loss(o, f, data)
            IN  Ret3(r.out, mem, r.self)

Grad(o, f, data, mem) ==
    CASE o.class = "AnchorKookClassificationObjective" ->
            WithSelf(AnchorKookClassification_grad(o, f, data, mem), o)
      [] o.class = "AnchorKookMultiClassificationObjective" ->
            WithSelf(AnchorKookMultiClassification_grad(o, f, data, mem), o)
      [] o.class = "AnchorLiuClassificationObjective" ->
            Ret3(AnchorLiuClassification_grad(o, f, data), mem, o)
      [] o.class = "AnchorRegressionObjective" ->
            Ret3(AnchorRegression_grad(o, f, data), mem, o)
      [] o.class = "AnchorHSICRegressionObjective" ->
            LET r == AnchorHSICRegression_grad(o, f, data)
            IN  Ret3(r.out, mem, r.self)

Hess(o, f, data, mem) ==
    CASE o.class \in {"AnchorKookClassificationObjective",
                      "AnchorLiuClassificationObjective"} ->
            Ret3(Apply("ClassificationMixin.hess", <<f, data>>), mem, o)
      [] o.class = "AnchorKookMultiClassificationObjective" ->
            WithSelf(Apply("MultiClassificationMixin.hess",
                           <<o, f, data, mem>>), o)
      [] o.class \in {"AnchorRegressionObjective",
                      "AnchorHSICRegressionObjective"} ->
            Ret3(Apply("RegressionMixin.hess", <<f, data>>), mem, o)

\* ---- LGBMMixin
Higher_is_better_set == TRUE
Higher_is_better == FALSE

\* self.grad(f, data), self.hess(f, data): grad first; an exception in grad
\* leaves hess uncalled
LGBM_objective_swapped(o, f, data, mem) ==
    LET g == Apply("grad", <<o, f, data, mem>>)
    IN  IF ~g.out.ok THEN Ret3(Raise, g.mem, g.self)
        ELSE LET h == Apply("hess", <<g.self, View(g.mem.f, "f"), data, g.mem>>)
             IN  IF ~h.out.ok THEN Ret3(Raise, h.mem, h.self)
                 ELSE Ret3(New(<<h.out.dat, g.out.dat>>), h.mem, h.self)

LGBM_objective(o, f, data, mem) ==
    LET g == Apply("grad", <<o, f, data, mem>>)
    IN  IF ~g.out.ok THEN Ret3(Raise, g.mem, g.self)
        ELSE LET h == Apply("hess", <<g.self, View(g.mem.f, "f"), data, g.mem>>)
             IN  IF ~h.out.ok THEN Ret3(Raise, h.mem, h.self)
                 ELSE Ret3(New(<<g.out.dat, h.out.dat>>), h.mem, h.self)

Digit(d) == CASE d = 0 -> "0" [] d = 1 -> "1" [] d = 2 -> "2" [] d = 3 -> "3"
              [] d = 4 -> "4" [] d = 5 -> "5" [] d = 6 -> "6" [] d = 7 -> "7"
              [] d = 8 -> "8" [] d = 9 -> "9"

\* str(n) of an integer n
RECURSIVE Str(_)
Str(n) == IF n < 0 THEN "-" \o Str(-n)
          ELSE IF n < 10 THEN Digit(n)
          ELSE Str(n \div 10) \o Digit(n % 10)

\* f"{self.name} ({self.gamma})"
ScoreLabel(o) == o.name \o " (" \o Str(o.gamma) \o ")"

LGBM_score(o, f, data, mem) ==
    LET l == Apply("loss", <<o, f, data, mem>>)
    IN  IF ~l.out.ok THEN Ret3(Raise, l.mem, l.self)
        ELSE Ret3(New(<<ScoreLabel(o), Mean1(l.out), Higher_is_better>>),
                  l.mem, l.self)

\* ---- MultiClassificationMixin.init_score
RECURSIVE SortSet(_)
SortSet(S) ==
    IF S = {} THEN <<>>
    ELSE LET m == CHOOSE x \in S : \A z \in S : x <= z
         IN  <<m>> \o SortSet(S \ {m})

Range(s) == {s[i] : i \in 1..Len(s)}
\* np.unique(y, return_counts=True)
Unique(y) == SortSet(Range(y))
UniqueCounts(y) ==
    LET u == Unique(y)
    IN  [c \in 1..Len(u) |-> Cardinality({i \in 1..Len(y) : y[i] = u[c]})]

RECURSIVE ISum(_)
ISum(s) == IF s = <<>> THEN 0 ELSE Head(s) + ISum(Tail(s))

MultiClassification_init_score(o, y) ==
    LET unique_values == Unique(y)
        unique_counts == UniqueCounts(y)
        sorted == SortSet(Range(unique_values))
    IN  IF Len(unique_values) # o.n_classes THEN Raise
        ELSE IF ~(\A c \in 1..Len(unique_values) : sorted[c] = unique_values[c])
        THEN Raise
        ELSE LET odds == [c \in 1..Len(unique_counts) |->
                             DConst(Rat(unique_counts[c], ISum(unique_counts)))]
                 tiled == New([i \in 1..Len(y) |-> odds])
             IN  Map1(DLog, FlattenF(tiled))

Apply(fn, args) ==
    LET r == CASE fn = "add" -> Np_add(args[1], args[2])
               [] fn = "multiply" -> Np_multiply(args[1], args[2])
               [] fn = "subtract" -> Np_subtract(args[1], args[2])
               [] fn = "divide" -> Np_divide(args[1], args[2])
               [] fn = "negative" -> Np_negative(args[1])
               [] fn = "exp" -> Np_exp(args[1])
               [] fn = "log" -> Np_log(args[1])
               [] fn = "log1p" -> Np_log1p(args[1])
               [] fn = "cos" -> Np_cos(args[1])
               [] fn = "sin" -> Np_sin(args[1])
               [] fn = "less" -> Np_less(args[1], args[2])
               [] fn = "ClassificationMixin.predictions" ->
                     Classification_predictions(args[1])
               [] fn = "ClassificationMixin.loss" -> Classification_loss(args[1], args[2])
               [] fn = "ClassificationMixin.grad" -> Classification_grad(args[1], args[2])
               [] fn = "ClassificationMixin.hess" -> Classification_hess(args[1], args[2])
               [] fn = "MultiClassificationMixin.predictions" ->
                     MultiClassification_predictions(args[1], args[2], args[3])
               [] fn = "MultiClassificationMixin.loss" ->
                     MultiClassification_loss(args[1], args[2], args[3], args[4])
               [] fn = "MultiClassificationMixin.grad" ->
                     MultiClassification_grad(args[1], args[2], args[3], args[4])
               [] fn = "MultiClassificationMixin.hess" ->
                     MultiClassification_hess(args[1], args[2], args[3], args[4])
               [] fn = "RegressionMixin.loss" -> Regression_loss(args[1], args[2])
               [] fn = "RegressionMixin.grad" -> Regression_grad(args[1], args[2])
               [] fn = "RegressionMixin.hess" -> Regression_hess(args[1], args[2])
               [] fn = "AnchorMixin._proj" ->
                     IF args[3] = 1 THEN Proj1(args[1], args[2])
                     ELSE Proj2(args[1], args[2])
               [] fn = "AnchorKookClassificationObjective.residuals" ->
                     AnchorKookClassification_residuals(args[1], args[2], args[3], args[4])
               [] fn = "AnchorKookMultiClassificationObjective.residuals" ->
                     AnchorKookMultiClassification_residuals(args[1], args[2], args[3],
                                                             args[4])
               [] fn = "AnchorLiuClassificationObjective.residuals" ->
                     AnchorLiuClassification_residuals(args[1], args[2], args[3])
               [] fn = "AnchorRegressionObjective.residuals" ->
                     AnchorRegression_residuals(args[1], args[2])
               [] fn = "AnchorHSICRegressionObjective._fourier_residuals" ->
                     AnchorHSICRegression_fourier_residuals(args[1], args[2], args[3])
               [] fn = "loss" -> Loss(args[1], args[2], args[3], args[4])
               [] fn = "grad" -> Grad(args[1], args[2], args[3], args[4])
               [] fn = "hess" -> Hess(args[1], args[2], args[3], args[4])
               [] fn = "objective" -> LGBM_objective(args[1], args[2], args[3], args[4])
               [] fn = "score" -> LGBM_score(args[1], args[2], args[3], args[4])
               [] fn = "init_score" -> MultiClassification_init_score(args[1], args[2])
    IN  CASE Known(args) -> Evaluated(r)


(***************************************************************************)
(* Constructors (__init__).                                                *)
(***************************************************************************)
AnchorKookClassificationObjective(gamma, center_residuals) ==
    [class |-> "AnchorKookClassificationObjective", gamma |-> gamma,
     center_residuals |-> center_residuals,
     name |-> "kook anchor classification"]

AnchorKookMultiClassificationObjective(gamma, n_classes, center_residuals) ==
    [class |-> "AnchorKookMultiClassificationObjective", gamma |-> gamma,
     center_residuals |-> center_residuals, n_classes |-> n_classes,
     factor |-> Factor(n_classes), name |-> "kook anchor multi-classification"]

AnchorLiuClassificationObjective(gamma) ==
    [class |-> "AnchorLiuClassificationObjective", gamma |-> gamma,
     name |-> "liu anchor classification"]

AnchorHSICRegressionObjective(gamma, n_components, seed) ==
    [class |-> "AnchorHSICRegressionObjective", gamma |-> gamma,
     n_components |-> n_components, random_fourier_features_seed |-> seed,
     name |-> "HSIC anchor regression"]

AnchorRegressionObjective(gamma) ==
    [class |-> "AnchorRegressionObjective", gamma |-> gamma,
     name |-> "anchor regression"]

(***************************************************************************)
(* Bounds and input sets.                                                  *)
(***************************************************************************)
\* number of examples n
N == 2
\* a score vector differs from the all-zero vector in at most MaxOff entries
MaxOff == 2
Gammas == {0, 1, 2}
ClassCounts == {2, 3}
ComponentCounts == {2}
Seeds == {0, 1}

IsBinary(o) == o.class \in {"AnchorKookClassificationObjective",
                            "AnchorLiuClassificationObjective"}
IsMulti(o) == o.class = "AnchorKookMultiClassificationObjective"

KookObjects == {AnchorKookClassificationObjective(g, c) :
                    g \in Gammas, c \in BOOLEAN}
KookMultiObjects == {AnchorKookMultiClassificationObjective(g, k, c) :
                         g \in Gammas, k \in ClassCounts, c \in BOOLEAN}
LiuObjects == {AnchorLiuClassificationObjective(g) : g \in Gammas}
HSICObjects == {AnchorHSICRegressionObjective(g, m, s) :
                    g \in Gammas, m \in ComponentCounts, s \in Seeds}
RegressionObjects == {AnchorRegressionObjective(g) : g \in Gammas}

\* scores: logarithms of odds for the classification families (so that exp
\* of a score is rational), integers for the regression family
BinaryScores == {NLn(Rat(1, 2)), NZero, NLn(Rat(2, 1))}
MultiScores == {NZero, NLn(Rat(2, 1))}
RegressionScores == {NZero, NInt(1)}

ScoreValues(o) == IF IsBinary(o) THEN BinaryScores
                  ELSE IF IsMulti(o) THEN MultiScores ELSE RegressionScores

\* the length of f that matches n examples
ScoreLen(o, n) == IF IsMulti(o) THEN n * o.n_classes ELSE n

Vectors(S, len) == [1..len -> S]

\* score vectors of the matching length, and all-zero ones of a wrong
\* length: 1, and the length that matches one example more
ScoreVectors(o) ==
    {v \in Vectors(ScoreValues(o), ScoreLen(o, N)) :
        Cardinality({i \in 1..Len(v) : v[i] # NZero}) <= MaxOff}
      \cup {[i \in 1..len |-> NZero] : len \in {1, ScoreLen(o, N + 1)}}

\* label vectors: every vector of classes for the binary and regression
\* families, the rotations of 0, 1, ..., k-1, 0, ... for the multi-class one
LabelVectors(o) ==
    IF IsMulti(o)
    THEN {[i \in 1..N |-> NInt((i - 1 + s) % o.n_classes)] :
             s \in 0..(o.n_classes - 1)}
    ELSE {[i \in 1..N |-> NInt(y[i])] : y \in Vectors({0, 1}, N)}

\* anchor matrices, one row per example: a single column 1, 2, ..., and
\* three columns (constant, first example, constant again: rank-deficient)
AnchorMatrices ==
    {[i \in 1..N |-> <<RInt(i)>>],
     [i \in 1..N |-> <<R1, IF i = 1 THEN R1 ELSE R0, R1>>]}

\* label vectors handed to init_score, of length N + 1: classes in turn,
\* classes 1..k in turn, one class only, k + 1 classes in turn
InitScoreArgs(o) ==
    {[i \in 1..(N + 1) |-> (i - 1) % o.n_classes],
     [i \in 1..(N + 1) |-> 1 + ((i - 1) % o.n_classes)],
     [i \in 1..(N + 1) |-> 0],
     [i \in 1..(N + 1) |-> (i - 1) % (o.n_classes + 1)]}

(***************************************************************************)
(* State.  obj is the objective object and made the object as it was       *)
(* constructed; f, label and anchor are the caller's arrays (the engine's  *)
(* score vector of the round and the dataset's label and anchor); ret is   *)
(* the outcome of the call the engine has made and not yet taken.          *)
(***************************************************************************)
VARIABLES obj, made, f, label, anchor, ret
vars == <<obj, made, f, label, anchor, ret>>

NoRet == [op |-> "none", ok |-> TRUE, val |-> <<>>, arg |-> <<>>]

Lift(v) == [i \in 1..Len(v) |-> Dual(v[i], NZero)]
Lower(v) == [i \in 1..Len(v) |-> v[i].v]
\* v with derivative 1 along entry j
Seeded(v, j) == [i \in 1..Len(v) |-> Dual(v[i], IF i = j THEN NInt(1) ELSE NZero)]

\* the dataset's anchor, a view of the caller's anchor matrix, with the
\* projection onto the span of its columns that _proj applies: no operation
\* writes the anchor, so the projection is the same at every _proj of a call
Anchor(dat) ==
    [ok |-> TRUE, dat |-> dat, base |-> "anchor", proj |-> ProjMatrix(dat)]
Mem(fd, lab, anc) == [f |-> fd, label |-> Lift(lab), anchor |-> anc]
Data(mem) == [label |-> View(mem.label, "label"),
              anchor |-> Anchor(mem.anchor)]
\* the call o.Op(f, data) with score data fd and the dataset's arrays
CallOn(Op(_, _, _, _), o, fd, lab, anc) ==
    LET mem == Mem(fd, lab, anc) IN Op(o, View(mem.f, "f"), Data(mem), mem)
Call(Op(_, _, _, _)) == CallOn(Op, obj, Lift(f), label, anchor)
\* the call obj.method(f, data)
CallMethod(method) ==
    CallOn(LAMBDA o, fa, data, mem : Apply(method, <<o, fa, data, mem>>),
           obj, Lift(f), label, anchor)

\* what the caller gets from a call: the values without their derivatives
Got(op, out) ==
    [ok |-> out.ok,
     val |-> IF ~out.ok THEN <<>>
             ELSE IF op = "objective" THEN <<Lower(out.dat[1]), Lower(out.dat[2])>>
             ELSE IF op = "score" THEN <<out.dat[1], out.dat[2].v, out.dat[3]>>
             ELSE Lower(out.dat)]

Outcome(op, c) ==
    /\ ret' = [op |-> op, ok |-> c.out.ok, val |-> Got(op, c.out).val,
               arg |-> <<>>]
    /\ obj' = c.self
    /\ f' = Lower(c.mem.f)
    /\ label' = Lower(c.mem.label)
    /\ anchor' = c.mem.anchor
    /\ UNCHANGED made

InitWith(objects) ==
    /\ obj \in objects
    /\ made = obj
    /\ f = [i \in 1..ScoreLen(obj, N) |-> NZero]
    /\ label \in LabelVectors(obj)
    /\ anchor \in AnchorMatrices
    /\ ret = NoRet

CallLoss ==
    /\ ret = NoRet
    /\ \E c \in {CallMethod("loss")} : Outcome("loss", c)

CallGrad ==
    /\ ret = NoRet
    /\ \E c \in {CallMethod("grad")} : Outcome("grad", c)

CallHess ==
    /\ ret = NoRet
    /\ \E c \in {CallMethod("hess")} : Outcome("hess", c)

CallObjective ==
    /\ ret = NoRet
    /\ \E c \in {CallMethod("objective")} : Outcome("objective", c)

CallScore ==
    /\ ret = NoRet
    /\ \E c \in {CallMethod("score")} : Outcome("score", c)

CallInitScore ==
    /\ ret = NoRet
    /\ IsMulti(obj)
    /\ \E y \in InitScoreArgs(obj) :
          \E r \in {Apply("init_score", <<obj, y>>)} :
             ret' = [op |-> "init_score", ok |-> r.ok,
                     val |-> Got("init_score", r).val, arg |-> y]
    /\ UNCHANGED <<obj, made, f, label, anchor>>

\* the engine takes the outcome of the call
Return ==
    /\ ret # NoRet
    /\ ret' = NoRet
    /\ UNCHANGED <<obj, made, f, label, anchor>>

\* the engine hands the objective the score vector of the next round
NewRound ==
    /\ ret = NoRet
    /\ \E g \in ScoreVectors(obj) : f' = g
    /\ UNCHANGED <<obj, made, label, anchor, ret>>

Next ==
    \/ CallLoss
    \/ CallGrad
    \/ CallHess
    \/ CallObjective
    \/ CallScore
    \/ CallInitScore
    \/ Return
    \/ NewRound

AllObjects == KookObjects \cup KookMultiObjects \cup LiuObjects
                \cup HSICObjects \cup RegressionObjects
Init == InitWith(AllObjects)
Spec == Init /\ [][Next]_vars

(***************************************************************************)
(* Properties.                                                             *)
(***************************************************************************)
Matching == Len(f) = ScoreLen(obj, N)
Result(c) == Got("", c)
Returned == [ok |-> ret.ok, val |-> ret.val]

\* the base family's loss and grad on the caller's (f, data)
BaseLoss(o, fa, data, mem) ==
    IF IsBinary(o) THEN Classification_loss(fa, data)
    ELSE IF IsMulti(o) THEN MultiClassification_loss(o, fa, data, mem).out
    ELSE Regression_loss(fa, data)
BaseGrad(o, fa, data, mem) ==
    IF IsBinary(o) THEN Classification_grad(fa, data)
    ELSE IF IsMulti(o) THEN MultiClassification_grad(o, fa, data, mem).out
    ELSE Regression_grad(fa, data)

\* C1: at gamma = 1 the loss and the grad of every variant are the loss and
\* the grad of its base family on the same (f, data), for f of the length
\* that matches the labels.
C1_GammaOneIsBase ==
    (obj.gamma = 1 /\ Matching) =>
        /\ ret.op = "loss" => Returned = Result(Call(BaseLoss))
        /\ ret.op = "grad" => Returned = Result(Call(BaseGrad))

C1_Witness ==
    /\ obj.gamma = 1 /\ Matching /\ ret.op = "grad" /\ ret.ok
    /\ obj.class = "AnchorKookMultiClassificationObjective"
    /\ obj.center_residuals
    /\ \E i \in 1..Len(f) : f[i] # NZero

\* the derivative of loss(f, data).sum() with respect to entry j of f
LossSumDerivative(j) ==
    DSumSeq(CallOn(Loss, obj, Seeded(f, j), label, anchor).out.dat).d

\* C2: grad(f, data) is, entry by entry, the derivative of
\* loss(f, data).sum() with respect to f, for every variant.
C2_GradIsDerivative ==
    (ret.op = "grad" /\ Matching) =>
        /\ ret.ok
        /\ Len(ret.val) = Len(f)
        /\ \A j \in 1..Len(f) : ret.val[j] = LossSumDerivative(j)

C2_Witness ==
    /\ ret.op = "grad" /\ Matching /\ ret.ok
    /\ obj.class = "AnchorKookClassificationObjective"
    /\ obj.center_residuals /\ obj.gamma = 2
    /\ \E i \in 1..Len(f) : ret.val[i] # Result(Call(BaseGrad)).val[i]
\* the base family's hess
BaseHess(o, fa, data, mem) ==
    IF IsBinary(o) THEN Classification_hess(fa, data)
    ELSE IF IsMulti(o) THEN MultiClassification_hess(o, fa, data, mem).out
    ELSE Regression_hess(fa, data)

\* a dataset other than the caller's: all labels 0, one constant anchor
ZeroLabels == [i \in 1..N |-> NZero]
OnesAnchor == [i \in 1..N |-> <<R1>>]
\* the object of obj's class with the default configuration
Plain(o) == [x \in DOMAIN o |->
                IF x = "gamma" THEN 1
                ELSE IF x = "center_residuals" THEN FALSE ELSE o[x]]

\* C3: objective(f, data) is the pair (grad, hess), in that order, of the
\* variant's own grad and of the base family's hess; the hess is the one the
\* base family gives for f whatever gamma, the anchor, the labels and
\* center_residuals are.
C3_ObjectiveIsGradAndBaseHess ==
    (ret.op = "objective" /\ Matching) =>
        /\ ret.ok
        /\ ret.val[1] = Got("grad", Call(Grad).out).val
        /\ ret.val[2] =
             Result(CallOn(BaseHess, Plain(obj), Lift(f), ZeroLabels, OnesAnchor)).val

C3_Witness ==
    /\ ret.op = "objective" /\ Matching /\ ret.ok
    /\ obj.gamma = 2 /\ label # ZeroLabels /\ anchor # OnesAnchor
    /\ ret.val[1] # Result(Call(BaseGrad)).val
    /\ ret.val[1] # ret.val[2]

\* str(gamma) for the values of gamma
GammaText(g) == CASE g = 0 -> "0" [] g = 1 -> "1" [] g = 2 -> "2"
                  [] g = 3 -> "3" [] g = 4 -> "4"

\* C4: score(f, data) is the triple of the variant's name followed by gamma
\* in parentheses, the mean over the examples of loss(f, data), and False.
C4_ScoreTriple ==
    (ret.op = "score" /\ Matching) =>
        /\ ret.ok
        /\ ret.val[1] = obj.name \o " (" \o GammaText(obj.gamma) \o ")"
        /\ NScale(RInt(N), ret.val[2])
             = DSumSeq(Call(Loss).out.dat).v
        /\ ret.val[3] = FALSE

C4_Witness ==
    /\ ret.op = "score" /\ Matching /\ ret.ok
    /\ ret.val[1] = "liu anchor classification (2)"
    /\ ret.val[2] # NZero

\* the outcome of ret.op called on the object as constructed
FromMade ==
    CASE ret.op = "loss" -> Got("loss", CallOn(Loss, made, Lift(f), label, anchor).out)
      [] ret.op = "grad" -> Got("grad", CallOn(Grad, made, Lift(f), label, anchor).out)
      [] ret.op = "hess" -> Got("hess", CallOn(Hess, made, Lift(f), label, anchor).out)
      [] ret.op = "objective" ->
            Got("objective", CallOn(LGBM_objective, made, Lift(f), label, anchor).out)
      [] ret.op = "score" ->
            Got("score", CallOn(LGBM_score, made, Lift(f), label, anchor).out)

\* C7: whatever calls were made on the object before, loss, grad, hess,
\* objective and score give on (f, data) what the object as constructed
\* gives: the HSIC variant draws its weights and offsets from a generator
\* seeded anew in each call.
C7_ResultIndependentOfHistory ==
    ret.op \in {"loss", "grad", "hess", "objective", "score"} =>
        Returned = FromMade

C7_Witness ==
    /\ ret.op = "grad" /\ ret.ok /\ Matching
    /\ obj.class = "AnchorHSICRegressionObjective" /\ obj.gamma = 2
    /\ ret.val # Result(Call(BaseGrad)).val

\* a step in which the objective is called
IsCall == ret.op = "none" /\ ret'.op # "none"

\* C10: a call of loss, grad, hess, objective or score leaves the object's
\* configuration and the caller's arrays f, label and anchor as they were.
C10_CallsChangeNothing ==
    [][IsCall => (obj' = obj /\ f' = f /\ label' = label /\ anchor' = anchor)]_vars

C10_Witness ==
    /\ ret.op = "grad" /\ ret.ok /\ Matching
    /\ obj.class = "AnchorKookMultiClassificationObjective"
    /\ obj.center_residuals /\ obj.gamma = 2
    /\ \E i \in 1..Len(f) : f[i] # NZero
\* C5: init_score(y) returns a score vector only when the distinct values
\* of y are exactly 0, ..., n_classes - 1.
C5_InitScoreNeedsAllClasses ==
    (ret.op = "init_score" /\ ret.ok) =>
        Range(ret.arg) = 0..(obj.n_classes - 1)

\* C6: objective and score fail when the length of f is not that of the
\* labels (times n_classes for the multi-class family).
C6_LengthMismatchFails ==
    (ret.op \in {"objective", "score"} /\ ~Matching) => ~ret.ok

\* ---- the multi-class quantities entry by entry, example i in 1..N and
\* class c in 0..n_classes - 1, read from position c * N + i
RECURSIVE RSumSeq(_)
RSumSeq(s) == IF s = <<>> THEN R0 ELSE RAdd(Head(s), RSumSeq(Tail(s)))

At(v, i, c) == v[c * N + i]
Classes == 0..(obj.n_classes - 1)
OneHot(i, c) == IF label[i] = NInt(c) THEN R1 ELSE R0

\* the softmax of the scores of each example: row i, column c + 1
SoftmaxRows ==
    [i \in 1..N |->
        LET e == [d \in 1..obj.n_classes |-> NExp(At(f, i, d - 1))]
        IN  [d \in 1..obj.n_classes |-> RDiv(e[d], RSumSeq(e))]]

\* M with the mean over the examples taken from each column
CenteredColumns(M) ==
    [i \in 1..N |-> [d \in 1..obj.n_classes |->
        RSub(M[i][d], RDiv(RSumSeq([l \in 1..N |-> M[l][d]]), RInt(N)))]]

MaybeCentered(M) == IF obj.center_residuals THEN CenteredColumns(M) ELSE M

ResidualRows(S) ==
    MaybeCentered([i \in 1..N |-> [d \in 1..obj.n_classes |->
                      RSub(S[i][d], OneHot(i, d - 1))]])

ProjRows(P, R) ==
    MaybeCentered([i \in 1..N |-> [d \in 1..obj.n_classes |->
                      RSumSeq([m \in 1..N |-> RMul(P[i][m], R[m][d])])]])

AnchorGradEntry(S, Q, i, c) ==
    LET w == RSumSeq([d \in 1..obj.n_classes |-> RMul(Q[i][d], S[i][d])])
    IN  RMul(RMul(RInt(2 * (obj.gamma - 1)), Rat(obj.n_classes - 1, obj.n_classes)),
             RMul(S[i][c + 1], RSub(Q[i][c + 1], w)))

GradEntry(S, Q, i, c) ==
    RAdd(RSub(S[i][c + 1], OneHot(i, c)), AnchorGradEntry(S, Q, i, c))

HessEntry(S, i, c) ==
    RMul(Rat(obj.n_classes, obj.n_classes - 1),
         RMul(S[i][c + 1], RSub(R1, S[i][c + 1])))

\* the logarithm of the share of class c among the labels y
LogShare(y, c) ==
    NLn(Rat(Cardinality({i \in 1..Len(y) : y[i] = c}), Len(y)))

\* C8: in the multi-class family grad, hess and init_score are flat vectors
\* of length n * k whose position c * n + i holds the value of example i and
\* class c, computed from the scores that f holds at the positions d * n + i;
\* grad includes the anchor gradient of the Kook variant; loss has length n.
C8_ColumnMajorLayout ==
    /\ (IsMulti(obj) /\ Matching /\ ret.op \in {"grad", "hess", "loss"}) =>
          /\ ret.ok
          /\ ret.op = "loss" => Len(ret.val) = N
          /\ ret.op = "hess" =>
                /\ Len(ret.val) = N * obj.n_classes
                /\ \A S \in {SoftmaxRows} :
                      \A i \in 1..N : \A c \in Classes :
                         At(ret.val, i, c) = NRat(HessEntry(S, i, c))
          /\ ret.op = "grad" =>
                /\ Len(ret.val) = N * obj.n_classes
                /\ \A S \in {SoftmaxRows} : \A P \in {ProjMatrix(anchor)} :
                      \A R \in {ResidualRows(S)} : \A Q \in {ProjRows(P, R)} :
                         \A i \in 1..N : \A c \in Classes :
                            At(ret.val, i, c) = NRat(GradEntry(S, Q, i, c))
    /\ (ret.op = "init_score" /\ ret.ok /\ Range(ret.arg) = Classes) =>
          /\ Len(ret.val) = Len(ret.arg) * obj.n_classes
          /\ \A i \in 1..Len(ret.arg) : \A c \in Classes :
                ret.val[c * Len(ret.arg) + i] = LogShare(ret.arg, c)

C8_Witness ==
    /\ IsMulti(obj) /\ Matching /\ ret.op = "grad" /\ ret.ok
    /\ obj.gamma = 2 /\ obj.n_classes = 3
    /\ ret.val # Result(Call(BaseGrad)).val
    /\ \E i \in 1..N : \E c \in Classes : \E d \in Classes :
          At(ret.val, i, c) # At(ret.val, i, d)
    /\ \E i \in 1..N : \E j \in 1..N : \E c \in Classes :
          At(ret.val, i, c) # At(ret.val, j, c)

\* the binary family's hess for the scores whose sigmoid is the class-1
\* probability of each example under the two scores in f
BinaryHess ==
    LET d == [i \in 1..N |-> NSub(At(f, i, 1), At(f, i, 0))]
    IN  Result(Classification_hess(New(Lift(d)), Data(Mem(Lift(d), label, anchor)))).val

TwoClassHess ==
    /\ IsMulti(obj) /\ obj.n_classes = 2 /\ Matching /\ ret.op = "hess" /\ ret.ok

\* C9 (as stated): with two classes the multi-class hess entry of an example
\* equals the binary family's hess entry p * (1 - p) for the same
\* probability.
C9_TwoClassHessIsBinary ==
    TwoClassHess =>
        \A i \in 1..N : \A c \in Classes : At(ret.val, i, c) = BinaryHess[i]

\* C9 (amended): with two classes the multi-class hess entry of an example,
\* predictions * (1 - predictions) / factor with factor = 1/2, is twice the
\* binary family's hess entry p * (1 - p) for the same probability.
C9_TwoClassHessIsTwiceBinary ==
    TwoClassHess =>
        \A i \in 1..N : \A c \in Classes :
            At(ret.val, i, c) = NScale(RInt(2), BinaryHess[i])

C9_Witness ==
    /\ TwoClassHess
    /\ \E i \in 1..N : At(f, i, 1) # At(f, i, 0)
====
